---------------------------- MODULE Spec2Model ----------------------------
(***************************************************************************)
(* Model of the highlight context locator of pdf-explainer.                *)
(* It covers the locator functions, the normalizers, the POST handler of   *)
(* route.ts, the temp files of the two text extractors, the thread page    *)
(* and MouseGlow; each has a specification of its own.                     *)
(*                                                                         *)
(* A JavaScript string is a sequence of UTF-16 code units.  A code unit is *)
(* written here as a short name:                                           *)
(*   "a".."d", "x"       lower-case letters                                *)
(*   "A"                 upper-case A  (toLowerCase gives "a")             *)
(*   "Idot"              U+0130, capital I with dot above; toLowerCase     *)
(*                       gives the TWO code units "i" "dot" (U+0069 U+0307)*)
(*   "i", "dot"          U+0069 and the combining dot above U+0307         *)
(*   "sp", "nl"          space and line feed, both matched by \s and trim  *)
(*   "ldq" "rdq"         curly double quotes U+201C U+201D                 *)
(*   "lsq" "rsq"         curly single quotes U+2018 U+2019                 *)
(*   "dq" "sq"           straight quotes                                   *)
(***************************************************************************)
EXTENDS Integers, Sequences, FiniteSets, TLC

VARIABLES
    pc,         \* position of the call under check: "call" before, "done" after
    pdfText,    \* argument: the extracted document text
    highlight,  \* argument: the user's highlight
    radius,     \* argument: getContextChunk's radius
    ret,        \* the value returned by the call ("none" before it returns)
    str,        \* the raw string handed to a normalizer
    last,       \* the normalizer that returned ret ("none": not yet applied)
    form,       \* the multipart form of the request POST handles
    extractor,  \* pdftotext: "idle", "running", "done" or "failed"
    provider,   \* the chat completion: "idle", "done" or "failed"
    instr,      \* the mode instructions and the reading-level style chosen
    resp,       \* the response of POST (status 0: not yet responded)
    clock,      \* Date.now(), in milliseconds since the first invocation
    procs,      \* the invocations of the text extractor, by request
    files,      \* the temp directory: the files in it and whose PDF each holds
    threads,    \* page.tsx: the thread list
    activeId,   \* page.tsx: the id of the selected thread (NoId: "")
    loading,    \* page.tsx: the loading flag
    file,       \* page.tsx: the chosen PDF ("none": null)
    pending,    \* page.tsx: the handleExplain calls awaiting their response
    nextId,     \* the number of ids crypto.randomUUID() has given out
    loaded,     \* page.tsx: the load effect has run
    mounted,    \* MouseGlow: the effect has run and has not been cleaned up
    rafRef,     \* MouseGlow: rafRef.current (NoFrame: null)
    latest,     \* MouseGlow: latest.current
    cssVars,    \* the values of --mouse-x and --mouse-y on the root element
    frames,     \* the animation frame requests not yet run or cancelled
    rafCount    \* the number of requestAnimationFrame calls so far

vars == <<pc, pdfText, highlight, radius, ret, str, last,
          form, extractor, provider, instr, resp,
          clock, procs, files,
          threads, activeId, loading, file, pending, nextId, loaded,
          mounted, rafRef, latest, cssVars, frames, rafCount>>

-----------------------------------------------------------------------------
(* Program constants *)

\* part_001:81   if (hNorm.length < 8)
MinHighlightLen == 8
\* part_001:90   hNorm.length > 140 / hNorm.slice(0, 140)
ProbeLen == 140
\* part_001:82,96   Math.min(original.length, 12000)
FallbackChars == 12000
\* part_001:103  h.trim().slice(0, Math.min(h.trim().length, 80))
NeedleLen == 80
\* part_001:64   radius = 2200 (default), part_001:146 (call site)
DefaultRadius == 2200
\* route.ts:33   textNorm.slice(0, 3500)
RouteFallbackChars == 3500
\* route.ts:41   const windowChars = 4000
WindowChars == 4000
\* mouse-glow.tsx:62   text.slice(0, 1800)
GlowFallbackChars == 1800
\* mouse-glow.tsx:65,66   idx - 1200, idx + highlight.length + 1200
GlowRadius == 1200
\* mouse-glow.tsx:145   pdf.size > 20 * 1024 * 1024
MaxUploadBytes == 20 * 1024 * 1024

-----------------------------------------------------------------------------
(* JavaScript string primitives *)

WhiteSpace == {"sp", "nl"}

IsWs(c) == c \in WhiteSpace

Min(a, b) == IF a <= b THEN a ELSE b

Max(a, b) == IF a >= b THEN a ELSE b

\* String.prototype.toLowerCase on one code unit
LowerChar(c) ==
    CASE c = "A"    -> <<"a">>
      [] c = "Idot" -> <<"i", "dot">>
      [] OTHER      -> <<c>>

\* String.prototype.toLowerCase: the code units' lower cases, concatenated
\* (split in halves so that long strings do not nest deeply)
RECURSIVE toLowerCase(_)
toLowerCase(s) ==
    IF Len(s) = 0 THEN <<>>
    ELSE IF Len(s) = 1 THEN LowerChar(s[1])
    ELSE LET h == Len(s) \div 2
         IN  toLowerCase(SubSeq(s, 1, h)) \o toLowerCase(SubSeq(s, h + 1, Len(s)))

\* String.prototype.slice(a, b) for 0 <= a, 0 <= b: both ends clamped to the
\* length, empty when a >= b
Slice(s, a, b) == SubSeq(s, Min(a, Len(s)) + 1, Min(b, Len(s)))

\* String.prototype.trim
TrimStart(s) ==
    IF \A i \in 1..Len(s) : IsWs(s[i]) THEN <<>>
    ELSE LET f == CHOOSE i \in 1..Len(s) :
                     /\ ~IsWs(s[i])
                     /\ \A j \in 1..(i - 1) : IsWs(s[j])
         IN  SubSeq(s, f, Len(s))

TrimEnd(s) ==
    IF \A i \in 1..Len(s) : IsWs(s[i]) THEN <<>>
    ELSE LET l == CHOOSE i \in 1..Len(s) :
                     /\ ~IsWs(s[i])
                     /\ \A j \in (i + 1)..Len(s) : IsWs(s[j])
         IN  SubSeq(s, 1, l)

trim(s) == TrimEnd(TrimStart(s))

\* s.replace(/\s+/g, " "): every maximal run of white space becomes one space
KeepUnit(u) == ~(IsWs(u[1]) /\ u[2])

CollapseWs(s) ==
    LET tagged == [i \in 1..Len(s) |-> <<s[i], i > 1 /\ IsWs(s[i - 1])>>]
        kept   == SelectSeq(tagged, KeepUnit)
    IN  [i \in 1..Len(kept) |-> IF IsWs(kept[i][1]) THEN "sp" ELSE kept[i][1]]

\* String.prototype.indexOf: the first position (from 0) at which t occurs in
\* s, -1 when there is none; the empty string occurs at 0
indexOf(s, t) ==
    LET at == {i \in 0..(Len(s) - Len(t)) : SubSeq(s, i + 1, i + Len(t)) = t}
    IN  IF at = {} THEN -1
        ELSE CHOOSE i \in at : \A j \in at : i <= j

Includes(s, t) == indexOf(s, t) # -1

-----------------------------------------------------------------------------
(* part_001 *)

\* function norm(s)
norm(s) == trim(CollapseWs(toLowerCase(s)))

\* Mutants of TooShort: an off-by-one comparison, and no minimum length at all
TooShort_OffByOne(hNorm) == Len(hNorm) <= MinHighlightLen

TooShort_Never(hNorm) == FALSE

\* part_001:81  hNorm.length < 8
TooShort(hNorm) == Len(hNorm) < MinHighlightLen

\* Mutant of StartChunk: the whole document, with no ceiling
StartChunk_NoCeiling(original) ==
    [context |-> original, found |-> FALSE, start |-> 0, end |-> Len(original)]

\* part_001:82-83, 96-97  the start-of-document chunk
StartChunk(original) ==
    LET context == Slice(original, 0, Min(Len(original), FallbackChars))
    IN  [context |-> context, found |-> FALSE, start |-> 0, end |-> Len(context)]

\* Mutant of FindNormIdx: the retry probes with the first 80 code units
FindNormIdx_ShortProbe(origNorm, hNorm) ==
    LET idx == indexOf(origNorm, hNorm)
    IN  IF idx = -1 /\ Len(hNorm) > ProbeLen
        THEN indexOf(origNorm, Slice(hNorm, 0, NeedleLen))
        ELSE idx

\* Mutant of FindNormIdx: no retry with the first 140 code units
FindNormIdx_NoRetry(origNorm, hNorm) == indexOf(origNorm, hNorm)

\* part_001:87-92  the index of the highlight in normalized space: the whole
\* normalized highlight, else its first 140 code units when it has more
FindNormIdx(origNorm, hNorm) ==
    LET idx == indexOf(origNorm, hNorm)
    IN  IF idx = -1 /\ Len(hNorm) > ProbeLen
        THEN indexOf(origNorm, Slice(hNorm, 0, ProbeLen))
        ELSE idx

\* part_001:103-110  the index in the original text: where the first 80 code
\* units of the trimmed highlight occur in the lower-cased original, else
\* Math.floor(idx * (original.length / Math.max(origNorm.length, 1)))
\* (the quotient is taken exactly here; the code takes it in double precision)
MapToOriginal(original, origNorm, h, idx) ==
    LET needle  == Slice(trim(h), 0, Min(Len(trim(h)), NeedleLen))
        origIdx == IF needle # <<>>
                   THEN indexOf(toLowerCase(original), toLowerCase(needle))
                   ELSE -1
    IN  IF origIdx = -1
        THEN (idx * Len(original)) \div Max(Len(origNorm), 1)
        ELSE origIdx

\* Mutant of Window: Math.max for Math.min at the right end
Window_MaxEnd(original, origIdx, r) ==
    LET start == Max(0, origIdx - r)
        end   == Max(Len(original), origIdx + r)
    IN  [context |-> Slice(original, start, end), found |-> TRUE,
         start |-> start, end |-> end]

\* part_001:112-116  the chunk of radius r around origIdx
Window(original, origIdx, r) ==
    LET start == Max(0, origIdx - r)
        end   == Min(Len(original), origIdx + r)
    IN  [context |-> Slice(original, start, end), found |-> TRUE,
         start |-> start, end |-> end]

\* function getContextChunk(pdfText, highlight, radius = 2200)
getContextChunk(text, hl, r) ==
    LET original == text
        h        == hl
        origNorm == norm(original)
        hNorm    == norm(h)
        idx      == FindNormIdx(origNorm, hNorm)
    IN  IF trim(original) = <<>>
        THEN [context |-> <<>>, found |-> FALSE, start |-> 0, end |-> 0]
        ELSE IF TooShort(hNorm) THEN StartChunk(original)
        ELSE IF idx = -1 THEN StartChunk(original)
        ELSE Window(original, MapToOriginal(original, origNorm, h, idx), r)

-----------------------------------------------------------------------------
(* route.ts *)

\* function normalize(s)   (app/api/explain/route.ts)
normalize(s) == trim(CollapseWs(s))

\* Math.floor(windowChars * 0.45), Math.floor(windowChars * 0.55)
WindowBefore == (WindowChars * 45) \div 100

WindowAfter == (WindowChars * 55) \div 100

\* function findContext(text, highlightRaw)   (app/api/explain/route.ts)
findContext(text, highlightRaw) ==
    LET hl       == normalize(highlightRaw)
        textNorm == text
        haystack == toLowerCase(textNorm)
        needle   == toLowerCase(hl)
        idx      == indexOf(haystack, needle)
    IN
    IF idx = -1
    THEN [found |-> FALSE, context |-> Slice(textNorm, 0, RouteFallbackChars)]
    ELSE
    LET start == Max(0, idx - WindowBefore)
        end   == Min(Len(textNorm), idx + Len(needle) + WindowAfter)
    IN  [found |-> TRUE, context |-> Slice(textNorm, start, end)]

\* The instruction templates are written in ASCII: an en dash is "-", a
\* curly quote is "'", a line break is " / ".

\* Mutant of buildInstructions: "example" answers with the "quick" template
buildInstructions_ExampleAsQuick(mode) ==
    CASE mode = "quick" ->
           "Explain the highlight in 2-4 sentences, notice any key terms, and connect it to the nearby context."
      [] mode = "breakdown" ->
           "Explain in a structured way: / - Main claim (1 line) / - Key phrases decoded (bullets) / - Reference resolution: what 'this/it/they/which' refers to (if present) / - Why it matters in context (1-2 lines)"
      [] mode = "example" ->
           "Explain the highlight in 2-4 sentences, notice any key terms, and connect it to the nearby context."
      [] mode = "assumptions" ->
           "Explain it and explicitly list assumptions you had to make because context may be missing."
      [] OTHER ->
           "Explain clearly using only the provided context."

\* function buildInstructions(mode)   (app/api/explain/route.ts)
buildInstructions(mode) ==
    CASE mode = "quick" ->
           "Explain the highlight in 2-4 sentences, notice any key terms, and connect it to the nearby context."
      [] mode = "breakdown" ->
           "Explain in a structured way: / - Main claim (1 line) / - Key phrases decoded (bullets) / - Reference resolution: what 'this/it/they/which' refers to (if present) / - Why it matters in context (1-2 lines)"
      [] mode = "example" ->
           "Explain it, then give ONE short example or analogy that matches the context."
      [] mode = "assumptions" ->
           "Explain it and explicitly list assumptions you had to make because context may be missing."
      [] OTHER ->
           "Explain clearly using only the provided context."

\* function mapReadingLevel(level)   (app/api/explain/route.ts)
mapReadingLevel(level) ==
    CASE level = "middle" ->
           "Write at a middle school reading level. Be simple and clear."
      [] level = "high" ->
           "Write at a high school reading level. Clear, but not childish."
      [] level = "college" ->
           "Write at a college reading level. More precise, but still readable."
      [] level = "expert" ->
           "Write at an expert level. Use precise terminology, concise."
      [] OTHER ->
           "Write clearly."

\* safeString(form.get(name)) || fallback : "" is falsy
OrDefault(v, fallback) == IF v = "" THEN fallback ELSE v

-----------------------------------------------------------------------------
(* mouse-glow.tsx (second half: an earlier revision of the route) *)

\* Mutant of UnifyQuote: a curly double quote becomes a space
UnifyQuote_Space(c) ==
    CASE c \in {"ldq", "rdq"} -> "sp"
      [] c = "rsq"             -> "sq"
      [] OTHER                 -> c

\* .replace(/[\u201C\u201D]/g, '"').replace(/[\u2019]/g, "'")
UnifyQuote(c) ==
    CASE c \in {"ldq", "rdq"} -> "dq"
      [] c = "rsq"             -> "sq"
      [] OTHER                 -> c

\* function normalize(s)   (app/mouse-glow.tsx)
normalizeQ(s) ==
    LET collapsed == CollapseWs(s)
    IN  trim([i \in 1..Len(collapsed) |-> UnifyQuote(collapsed[i])])

\* function findContext(fullTextRaw, highlightRaw)   (app/mouse-glow.tsx)
findContextGlow(fullTextRaw, highlightRaw) ==
    LET text == normalizeQ(fullTextRaw)
        hl   == normalizeQ(highlightRaw)
        idx  == indexOf(toLowerCase(text), toLowerCase(hl))
    IN
    IF idx = -1
    THEN [found |-> FALSE, context |-> Slice(text, 0, GlowFallbackChars)]
    ELSE
    LET start == Max(0, idx - GlowRadius)
        end   == Min(Len(text), idx + Len(hl) + GlowRadius)
    IN  [found |-> TRUE, context |-> Slice(text, start, end)]

-----------------------------------------------------------------------------
(* Inputs *)

\* Bounds of the enumerated inputs
MaxDocParts == 3
MaxHlParts == 3
MaxRadius == 1
MaxStrLen == 4

Word == <<"a", "b", "c", "d">>

WordUp == <<"A", "b", "c", "d">>

Run(c, n) == [i \in 1..n |-> c]

\* a run of capital dotted I, longer than a highlight and a radius together
IdotRun == Run("Idot", MinHighlightLen + MaxRadius + 1)

DocTokens == {Word, IdotRun, <<"sp">>, <<"nl">>}

HlTokens == {Word, WordUp, <<"sp">>}

\* the strings made of at most n tokens of T
RECURSIVE Strings(_, _)
Strings(T, n) ==
    IF n = 0 THEN {<<>>}
    ELSE LET shorter == Strings(T, n - 1)
         IN  shorter \cup {s \o t : s \in shorter, t \in T}

\* the first n code units of a passage of eight-letter words, of "a" within
\* the first NeedleLen code units and of "b" after them
Passage(n) ==
    [i \in 1..n |-> IF i % 9 = 0 THEN "sp" ELSE IF i <= NeedleLen THEN "a" ELSE "b"]

ShortDocs == Strings(DocTokens, MaxDocParts)

ShortHighlights == Strings(HlTokens, MaxHlParts)

Radii == (1..MaxRadius) \cup {DefaultRadius}

\* documents longer than the radius: a piece of text, a long run of one code
\* unit, a piece of text
Pieces ==
    { <<>>, Word \o Word, Word \o <<"nl">> \o Word,
      Passage(NeedleLen), Passage(ProbeLen) }

PadLen == DefaultRadius + 2 * MinHighlightLen

PaddedDocs ==
    { pre \o Run(c, PadLen) \o post :
        pre \in Pieces, post \in Pieces, c \in {"sp", "x", "Idot"} }

\* documents around the fallback ceiling
CeilingDocs ==
    { Run("x", n) \o post :
        n \in (FallbackChars - 1)..(FallbackChars + 1), post \in {<<>>, Word \o Word} }

\* documents with a piece of text between two long runs
CenteredDocs ==
    { Run("x", PadLen) \o mid \o Run("x", PadLen) :
        mid \in {Word \o Word, Passage(NeedleLen)} }

LongDocs == PaddedDocs \cup CeilingDocs \cup CenteredDocs

LongHighlights ==
    { <<>>, Word, Word \o Word, Word \o <<"sp">> \o Word,
      Passage(NeedleLen), Passage(NeedleLen + 20),
      Passage(ProbeLen), Passage(ProbeLen + 5) }

\* documents and highlights that differ in their quotation marks
QuoteMarks == {<<"ldq">>, <<"rdq">>, <<"lsq">>, <<"rsq">>}

QuotedDocs == Strings({Word} \cup QuoteMarks, MaxDocParts)

QuotedHighlights == Strings({Word, <<"dq">>, <<"sq">>}, MaxHlParts)

\* the code units a normalizer is tried on
Units == {"a", "A", "Idot", "sp", "nl", "ldq", "rdq", "rsq"}

RECURSIVE SeqsUpTo(_, _)
SeqsUpTo(U, n) ==
    IF n = 0 THEN {<<>>}
    ELSE LET shorter == SeqsUpTo(U, n - 1)
         IN  shorter \cup {Append(s, u) : s \in shorter, u \in U}

-----------------------------------------------------------------------------
(* The request state of POST (route.ts) *)

request == <<form, extractor, provider, instr, resp>>

NoForm == [pdf |-> "missing", size |-> 0, mode |-> "", readingLevel |-> "",
           multipart |-> TRUE]

NoInstr == [instructions |-> "", level |-> ""]

NoResp == [status |-> 0, body |-> [none |-> TRUE]]

\* route.ts:184   found and context before findContext has returned
NoRet == [found |-> FALSE, context |-> <<>>]

\* the values of the form's mode and readingLevel fields ("": not sent)
Modes == {"", "quick", "breakdown", "example", "assumptions", "summary"}

Levels == {"", "middle", "high", "college", "expert", "phd"}

\* form.get("pdf"): absent, a text field, or a file
PdfFields == {"missing", "text", "file"}

Forms ==
    [pdf : PdfFields, size : {MaxUploadBytes, MaxUploadBytes + 1},
     mode : Modes, readingLevel : Levels, multipart : BOOLEAN]

\* the text pdftotext writes for the uploaded file
ExtractedTexts == {<<>>, Word \o Word, Word \o <<"nl">> \o Word}

\* form.get("highlight")
FormHighlights ==
    {<<>>, <<"sp">>, Word, Word \o Word, Word \o <<"sp">> \o Word}

-----------------------------------------------------------------------------
(* The temp files of the text extractor (route.ts:52-128, part_001:10-53) *)

extraction == <<clock, procs, files>>

\* the requests whose PDFs are extracted at the same time
MaxCalls == 3

Calls == 1..MaxCalls

\* the milliseconds the clock can advance while they run
MaxClock == 2

\* an invocation that has not started yet
NoProc ==
    [pc |-> "start", inputPath |-> <<>>, outputPath |-> <<>>,
     wrote |-> FALSE, unlinked |-> FALSE, text |-> 0]

\* no extraction is modelled
NoExtraction ==
    /\ clock = 0
    /\ procs = [i \in Calls |-> NoProc]
    /\ files = {}

\* fs.writeFile(path, data): the file at path is created or replaced; a file
\* is written here as its path and the request whose PDF (or text) it holds
WriteFile(fs, path, owner) ==
    {f \in fs : f.path # path} \cup {[path |-> path, owner |-> owner]}

\* fs.unlink(path), errors ignored
Unlink(fs, path) == {f \in fs : f.path # path}

Exists(fs, path) == \E f \in fs : f.path = path

\* the request whose data the file at path holds
OwnerAt(fs, path) == (CHOOSE f \in fs : f.path = path).owner

\* pdftotext inputPath outputPath, exit code 0: the text of the PDF that is
\* at inputPath when the child reads it is written to outputPath
Pdftotext(fs, inputPath, outputPath) ==
    WriteFile(fs, outputPath, OwnerAt(fs, inputPath))

-----------------------------------------------------------------------------
(* The thread page (page.tsx:286-921) *)

page == <<threads, activeId, loading, file, pending, nextId, loaded>>

\* page.tsx:247
MAX_THREADS == 30

\* the ids crypto.randomUUID() gives out while the page is used
MaxIds == 4

\* Ids are numbers: 1, 2, ... are the uuids given out in this session, in
\* order; negative numbers are ids found in storage.
\* page.tsx:288   useState("") : no thread is selected
NoId == 0

\* page.tsx:287-295   the state of Page after construction
NoPage ==
    /\ threads = <<>>
    /\ activeId = NoId
    /\ loading = FALSE
    /\ file = "none"
    /\ pending = {}
    /\ nextId = 0
    /\ loaded = FALSE

-----------------------------------------------------------------------------
(* MouseGlow (mouse-glow.tsx:5-34) *)

glow == <<mounted, rafRef, latest, cssVars, frames, rafCount>>

\* mouse-glow.tsx:6   useRef<number | null>(null); the ids that
\* requestAnimationFrame returns are 1, 2, ...
NoFrame == 0

\* the requestAnimationFrame calls made while the component is used
MaxFrames == 3

\* window.innerWidth and window.innerHeight, in pixels
InnerSize == 4

\* e.clientX and e.clientY of a mousemove
ClientCoords == {0, 1, InnerSize}

\* mouse-glow.tsx:17-18   (e.clientX / window.innerWidth) * 100, for
\* coordinates whose quotient is exact
Percent(c) == (c * 100) \div InnerSize

\* the custom properties before MouseGlow has set them
Unset == [x |-> -1, y |-> -1]

\* mouse-glow.tsx:6-7   the refs after construction
NoGlow ==
    /\ mounted = FALSE
    /\ rafRef = NoFrame
    /\ latest = [x |-> 50, y |-> 50]
    /\ cssVars = Unset
    /\ frames = {}
    /\ rafCount = 0

-----------------------------------------------------------------------------
(* Calls of getContextChunk (part_001:146) *)

InitArgs ==
    \/ /\ pdfText \in ShortDocs
       /\ highlight \in ShortHighlights
       /\ radius \in Radii
    \/ /\ pdfText \in LongDocs
       /\ highlight \in LongHighlights
       /\ radius = DefaultRadius

\* no request is in progress: the function is called on its own
NoRequest ==
    /\ form = NoForm
    /\ extractor = "idle"
    /\ provider = "idle"
    /\ instr = NoInstr
    /\ resp = NoResp

Init ==
    /\ pc = "call"
    /\ InitArgs
    /\ ret = "none"
    /\ str = <<>>
    /\ last = "none"
    /\ NoRequest
    /\ NoExtraction
    /\ NoPage
    /\ NoGlow

CallGetContextChunk ==
    /\ pc = "call"
    /\ ret' = getContextChunk(pdfText, highlight, radius)
    /\ pc' = "done"
    /\ UNCHANGED <<extraction, page, glow, pdfText, highlight, radius, str, last, request>>

Next == CallGetContextChunk

Spec == Init /\ [][Next]_vars

-----------------------------------------------------------------------------
(* Calls of findContext (route.ts:184) *)

CallFindContext ==
    /\ pc = "call"
    /\ ret' = findContext(pdfText, highlight)
    /\ pc' = "done"
    /\ UNCHANGED <<extraction, page, glow, pdfText, highlight, radius, str, last, request>>

NextFind == CallFindContext

SpecFind == Init /\ [][NextFind]_vars

-----------------------------------------------------------------------------
(* Calls of findContext (mouse-glow.tsx:181) *)

InitGlow ==
    /\ pc = "call"
    /\ pdfText \in QuotedDocs
    /\ highlight \in QuotedHighlights
    /\ radius = GlowRadius
    /\ ret = "none"
    /\ str = <<>>
    /\ last = "none"
    /\ NoRequest
    /\ NoExtraction
    /\ NoPage
    /\ NoGlow

CallFindContextGlow ==
    /\ pc = "call"
    /\ ret' = findContextGlow(pdfText, highlight)
    /\ pc' = "done"
    /\ UNCHANGED <<extraction, page, glow, pdfText, highlight, radius, str, last, request>>

NextGlow == CallFindContextGlow

SpecGlow == InitGlow /\ [][NextGlow]_vars

-----------------------------------------------------------------------------
(* Normalizers applied to a raw string, and again to their own result *)

InitNorm ==
    /\ pc = "call"
    /\ pdfText = <<>>
    /\ highlight = <<>>
    /\ radius = DefaultRadius
    /\ ret = "none"
    /\ str \in SeqsUpTo(Units, MaxStrLen)
    /\ last = "none"
    /\ NoRequest
    /\ NoExtraction
    /\ NoPage
    /\ NoGlow

ApplyNormalize ==
    /\ last \in {"none", "normalize"}
    /\ ret' = normalize(IF last = "none" THEN str ELSE ret)
    /\ last' = "normalize"
    /\ UNCHANGED <<extraction, page, glow, pc, pdfText, highlight, radius, str, request>>

ApplyNormalizeQ ==
    /\ last \in {"none", "normalizeQ"}
    /\ ret' = normalizeQ(IF last = "none" THEN str ELSE ret)
    /\ last' = "normalizeQ"
    /\ UNCHANGED <<extraction, page, glow, pc, pdfText, highlight, radius, str, request>>

ApplyNorm ==
    /\ last \in {"none", "norm"}
    /\ ret' = norm(IF last = "none" THEN str ELSE ret)
    /\ last' = "norm"
    /\ UNCHANGED <<extraction, page, glow, pc, pdfText, highlight, radius, str, request>>

NextNorm == ApplyNormalize \/ ApplyNormalizeQ \/ ApplyNorm

SpecNorm == InitNorm /\ [][NextNorm]_vars

-----------------------------------------------------------------------------
(* POST (route.ts:164-239) *)

InitPost ==
    /\ pc = "request"
    /\ form \in Forms
    /\ pdfText \in ExtractedTexts
    /\ highlight \in FormHighlights
    /\ radius = DefaultRadius
    /\ ret = NoRet
    /\ str = <<>>
    /\ last = "none"
    /\ extractor = "idle"
    /\ provider = "idle"
    /\ instr = NoInstr
    /\ resp = NoResp
    /\ NoExtraction
    /\ NoPage
    /\ NoGlow

\* route.ts:170-171   safeString(form.get(..)) || "breakdown" / "high"
Mode(f) == OrDefault(f.mode, "breakdown")

ReadingLevel(f) == OrDefault(f.readingLevel, "high")

\* the messages of the exceptions POST can catch
FormError == "Failed to parse body as FormData."

\* route.ts:106-108
ExtractError == "pdftotext failed (code 1): unknown error"

ProviderError == "429 You exceeded your current quota"

\* Mutant of Caught: the exception's message is dropped
Caught_NoDetails(msg) ==
    [status |-> 500,
     body   |-> [error |-> "PDF extraction failed", details |-> ""]]

\* route.ts:229-238   the catch block's response; msg is err.message
Caught(msg) ==
    [status |-> 500,
     body   |-> [error |-> "PDF extraction failed", details |-> msg]]

\* route.ts:166   await req.formData() rejects: the body is not a form
FormDataThrows ==
    /\ pc = "request"
    /\ ~form.multipart
    /\ resp' = Caught(FormError)
    /\ pc' = "done"
    /\ UNCHANGED <<extraction, page, glow, pdfText, highlight, radius, ret, str, last,
                   form, extractor, provider, instr>>

\* route.ts:166-171
ReadForm ==
    /\ pc = "request"
    /\ form.multipart
    /\ pc' = "validate"
    /\ UNCHANGED <<extraction, page, glow, pdfText, highlight, radius, ret, str, last, request>>

\* route.ts:173-175
RejectMissingPdf ==
    /\ pc = "validate"
    /\ form.pdf # "file"
    /\ resp' = [status |-> 400, body |-> [error |-> "Missing PDF upload."]]
    /\ pc' = "done"
    /\ UNCHANGED <<extraction, page, glow, pdfText, highlight, radius, ret, str, last,
                   form, extractor, provider, instr>>

\* route.ts:176-178
RejectMissingHighlight ==
    /\ pc = "validate"
    /\ form.pdf = "file"
    /\ trim(highlight) = <<>>
    /\ resp' = [status |-> 400,
                body   |-> [error |-> "Missing highlighted text."]]
    /\ pc' = "done"
    /\ UNCHANGED <<extraction, page, glow, pdfText, highlight, radius, ret, str, last,
                   form, extractor, provider, instr>>

\* route.ts:180-182   the buffer is read and runPdftotext is called
StartExtract ==
    /\ pc = "validate"
    /\ form.pdf = "file"
    /\ trim(highlight) # <<>>
    /\ extractor' = "running"
    /\ pc' = "extract"
    /\ UNCHANGED <<extraction, page, glow, pdfText, highlight, radius, ret, str, last,
                   form, provider, instr, resp>>

\* route.ts:105-109, 229-238   runPdftotext throws
ExtractFails ==
    /\ pc = "extract"
    /\ extractor' = "failed"
    /\ resp' = Caught(ExtractError)
    /\ pc' = "done"
    /\ UNCHANGED <<extraction, page, glow, pdfText, highlight, radius, ret, str, last,
                   form, provider, instr>>

\* route.ts:182   runPdftotext returns { text, debug }
ExtractSucceeds ==
    /\ pc = "extract"
    /\ extractor' = "done"
    /\ pc' = "locate"
    /\ UNCHANGED <<extraction, page, glow, pdfText, highlight, radius, ret, str, last,
                   form, provider, instr, resp>>

\* route.ts:184-187
Locate ==
    /\ pc = "locate"
    /\ ret' = findContext(pdfText, highlight)
    /\ instr' = [instructions |-> buildInstructions(Mode(form)),
                 level        |-> mapReadingLevel(ReadingLevel(form))]
    /\ pc' = "key"
    /\ UNCHANGED <<extraction, page, glow, pdfText, highlight, radius, str, last,
                   form, extractor, provider, resp>>

\* route.ts:189-199   OPENAI_API_KEY is unset
FakeOutput ==
    /\ pc = "key"
    /\ resp' = [status |-> 200,
                body   |-> [ok     |-> TRUE,
                            output |-> [mode         |-> Mode(form),
                                        found        |-> ret.found,
                                        highlight    |-> highlight,
                                        instructions |-> instr.instructions,
                                        context      |-> Slice(ret.context, 0,
                                                          RouteFallbackChars)],
                            debug  |-> "debug"]]
    /\ pc' = "done"
    /\ UNCHANGED <<extraction, page, glow, pdfText, highlight, radius, ret, str, last,
                   form, extractor, provider, instr>>

\* route.ts:201-228   the completion returns
Generate ==
    /\ pc = "key"
    /\ provider' = "done"
    /\ \E content \in {"", "explanation"} :
          resp' = [status |-> 200,
                   body   |-> [ok             |-> TRUE,
                               output         |-> OrDefault(content, "No output."),
                               foundHighlight |-> ret.found,
                               debug          |-> "debug"]]
    /\ pc' = "done"
    /\ UNCHANGED <<extraction, page, glow, pdfText, highlight, radius, ret, str, last,
                   form, extractor, instr>>

\* route.ts:212, 229-238   the completion throws
ProviderFails ==
    /\ pc = "key"
    /\ provider' = "failed"
    /\ resp' = Caught(ProviderError)
    /\ pc' = "done"
    /\ UNCHANGED <<extraction, page, glow, pdfText, highlight, radius, ret, str, last,
                   form, extractor, instr>>

NextPost ==
    \/ FormDataThrows
    \/ ReadForm
    \/ RejectMissingPdf
    \/ RejectMissingHighlight
    \/ StartExtract
    \/ ExtractFails
    \/ ExtractSucceeds
    \/ Locate
    \/ FakeOutput
    \/ Generate
    \/ ProviderFails

SpecPost == InitPost /\ [][NextPost]_vars

\* the positions of POST, and the step that leaves position p
PostSteps == {"request", "validate", "extract", "locate", "key", "done"}

LeaveStep(p) == pc = p /\ pc' \in PostSteps \ {p}

\* every await of POST settles and the code between two awaits runs on: the
\* handler does not stay for ever at a position before its return
SpecPostFair ==
    SpecPost /\ \A p \in PostSteps \ {"done"} : WF_pc(LeaveStep(p))

-----------------------------------------------------------------------------
(* runPdftotext (route.ts:52-128), one invocation per request *)

\* nothing but the extractor is modelled
NoLocator ==
    /\ pc = "call"
    /\ pdfText = <<>>
    /\ highlight = <<>>
    /\ radius = DefaultRadius
    /\ ret = "none"
    /\ str = <<>>
    /\ last = "none"
    /\ NoRequest

locator == <<pc, pdfText, highlight, radius, ret, str, last, request>>

InitRun ==
    /\ NoLocator
    /\ NoExtraction
    /\ NoPage
    /\ NoGlow

\* route.ts:64-65   pdfex-${crypto.randomUUID()}: a name no other call has
UuidPath(i, ext) == <<"pdfex", i, ext>>

\* route.ts:62-67   await fs.writeFile(inputPath, pdfBuffer) resolves
RunWriteInput(i) ==
    /\ procs[i].pc = "start"
    /\ procs' = [procs EXCEPT ![i].pc = "spawned",
                              ![i].inputPath = UuidPath(i, "pdf"),
                              ![i].outputPath = UuidPath(i, "txt"),
                              ![i].wrote = TRUE]
    /\ files' = WriteFile(files, UuidPath(i, "pdf"), i)
    /\ UNCHANGED <<locator, page, glow, clock>>

\* route.ts:67   await fs.writeFile(inputPath, pdfBuffer) rejects
RunWriteFails(i) ==
    /\ procs[i].pc = "start"
    /\ procs' = [procs EXCEPT ![i].pc = "thrown",
                              ![i].inputPath = UuidPath(i, "pdf"),
                              ![i].outputPath = UuidPath(i, "txt")]
    /\ UNCHANGED <<locator, page, glow, clock, files>>

\* route.ts:90-103, 111   the child closes with code 0; readFile is awaited
RunChildSucceeds(i) ==
    /\ procs[i].pc = "spawned"
    /\ Exists(files, procs[i].inputPath)
    /\ files' = Pdftotext(files, procs[i].inputPath, procs[i].outputPath)
    /\ procs' = [procs EXCEPT ![i].pc = "reading"]
    /\ UNCHANGED <<locator, page, glow, clock>>

\* route.ts:101-109   the child closes with a non-zero code, or emits an
\* error (code -1); runPdftotext throws
RunChildFails(i) ==
    /\ procs[i].pc = "spawned"
    /\ procs' = [procs EXCEPT ![i].pc = "thrown"]
    /\ UNCHANGED <<locator, page, glow, clock, files>>

\* route.ts:111-127   readFile resolves; both unlinks are issued; return
RunReadOutput(i) ==
    /\ procs[i].pc = "reading"
    /\ Exists(files, procs[i].outputPath)
    /\ procs' = [procs EXCEPT ![i].pc = "returned",
                              ![i].text = OwnerAt(files, procs[i].outputPath),
                              ![i].unlinked = TRUE]
    /\ files' = Unlink(Unlink(files, procs[i].inputPath), procs[i].outputPath)
    /\ UNCHANGED <<locator, page, glow, clock>>

\* route.ts:111   readFile rejects; runPdftotext throws
RunReadFails(i) ==
    /\ procs[i].pc = "reading"
    /\ procs' = [procs EXCEPT ![i].pc = "thrown"]
    /\ UNCHANGED <<locator, page, glow, clock, files>>

NextRun ==
    \E i \in Calls :
        \/ RunWriteInput(i)
        \/ RunWriteFails(i)
        \/ RunChildSucceeds(i)
        \/ RunChildFails(i)
        \/ RunReadOutput(i)
        \/ RunReadFails(i)

SpecRun == InitRun /\ [][NextRun]_vars

-----------------------------------------------------------------------------
(* extractPdfText (part_001:10-53), one invocation per request *)

\* part_001:14-15   `${tmpDir}/input-${Date.now()}.pdf`, output-...txt
StampPath(name, t) == <<name, t>>

\* Date.now() advances
Tick ==
    /\ clock < MaxClock
    /\ clock' = clock + 1
    /\ UNCHANGED <<locator, page, glow, procs, files>>

\* part_001:11-17   both paths are made from Date.now() (the second reading
\* may fall in the next millisecond); await fs.writeFile resolves
ExtWriteInput(i) ==
    /\ procs[i].pc = "start"
    /\ \E t \in {clock, Min(clock + 1, MaxClock)} :
          /\ clock' = t
          /\ procs' = [procs EXCEPT ![i].pc = "spawned",
                                    ![i].inputPath = StampPath("input", clock),
                                    ![i].outputPath = StampPath("output", t),
                                    ![i].wrote = TRUE]
    /\ files' = WriteFile(files, StampPath("input", clock), i)
    /\ UNCHANGED <<locator, page, glow>>

\* part_001:17   await fs.writeFile rejects
ExtWriteFails(i) ==
    /\ procs[i].pc = "start"
    /\ procs' = [procs EXCEPT ![i].pc = "thrown",
                              ![i].inputPath = StampPath("input", clock),
                              ![i].outputPath = StampPath("output", clock)]
    /\ UNCHANGED <<locator, page, glow, clock, files>>

\* part_001:42-46   the child closes with code 0; the close handler awaits
\* fs.readFile(outputPath)
ExtChildSucceeds(i) ==
    /\ procs[i].pc = "spawned"
    /\ Exists(files, procs[i].inputPath)
    /\ files' = Pdftotext(files, procs[i].inputPath, procs[i].outputPath)
    /\ procs' = [procs EXCEPT ![i].pc = "reading"]
    /\ UNCHANGED <<locator, page, glow, clock>>

\* part_001:26-28, 40, 43-44   pdftotext is not found, the child emits an
\* error, or it closes with a non-zero code: extractPdfText rejects
ExtChildFails(i) ==
    /\ procs[i].pc = "spawned"
    /\ procs' = [procs EXCEPT ![i].pc = "thrown"]
    /\ UNCHANGED <<locator, page, glow, clock, files>>

\* part_001:45-46, 50-51   readFile resolves, the promise resolves, both
\* files are unlinked and the text is returned
ExtReadOutput(i) ==
    /\ procs[i].pc = "reading"
    /\ Exists(files, procs[i].outputPath)
    /\ procs' = [procs EXCEPT ![i].pc = "returned",
                              ![i].text = OwnerAt(files, procs[i].outputPath),
                              ![i].unlinked = TRUE]
    /\ files' = Unlink(Unlink(files, procs[i].inputPath), procs[i].outputPath)
    /\ UNCHANGED <<locator, page, glow, clock>>

\* part_001:42-47   readFile rejects inside the async close handler: the
\* handler's own promise rejects, resolve and reject are never called
ExtReadFails(i) ==
    /\ procs[i].pc = "reading"
    /\ procs' = [procs EXCEPT ![i].pc = "pending"]
    /\ UNCHANGED <<locator, page, glow, clock, files>>

ExtStep(i) ==
    \/ ExtWriteInput(i)
    \/ ExtWriteFails(i)
    \/ ExtChildSucceeds(i)
    \/ ExtChildFails(i)
    \/ ExtReadOutput(i)
    \/ ExtReadFails(i)

NextExt == Tick \/ \E i \in Calls : ExtStep(i)

SpecExt == InitRun /\ [][NextExt]_vars

\* the event loop serves every invocation and every child process exits
SpecExtFair == SpecExt /\ \A i \in Calls : WF_vars(ExtStep(i))

-----------------------------------------------------------------------------
(* Page (page.tsx:286-481).  A thread is its id and its messages; the title
   and the file name of a thread and the times of creation are left out. *)

\* page.tsx:350-357   createNewThread(), id the next uuid
createNewThread(id) == [id |-> id, messages |-> <<>>]

\* localStorage.getItem(STORAGE_KEY), parsed: no item, a text that is not
\* JSON, or a list of threads saved earlier
StoredThread(id) == [id |-> id, messages |-> <<>>]

StoredValues ==
    { [kind |-> "null", list |-> <<>>],
      [kind |-> "invalid", list |-> <<>>],
      [kind |-> "list", list |-> <<>>],
      [kind |-> "list", list |-> <<StoredThread(-1), StoredThread(-2)>>] }

ThreadIds(ts) == {ts[k].id : k \in 1..Len(ts)}

\* page.tsx:328-331   activeThread
HasActiveThread == activeId \in ThreadIds(threads)

InitPage ==
    /\ NoLocator
    /\ NoExtraction
    /\ NoPage
    /\ NoGlow

composer == <<highlight, file>>

rest == <<pc, pdfText, radius, ret, str, last, request, extraction, glow>>

\* page.tsx:299-317   the load effect
Load ==
    /\ ~loaded
    /\ loaded' = TRUE
    /\ \E stored \in StoredValues :
          IF stored.kind = "list"
          THEN /\ threads' = stored.list
               /\ activeId' = IF Len(stored.list) > 0
                               THEN stored.list[1].id ELSE activeId
               /\ nextId' = nextId
          ELSE /\ threads' = <<createNewThread(nextId + 1)>>
               /\ activeId' = nextId + 1
               /\ nextId' = nextId + 1
    /\ UNCHANGED <<rest, composer, loading, pending>>

\* page.tsx:780, 821   the file input
ChooseFile ==
    /\ loaded
    /\ file' \in {"none", "doc.pdf"} \ {file}
    /\ UNCHANGED <<rest, highlight, threads, activeId, loading, pending,
                   nextId, loaded>>

\* page.tsx:854   the highlight text area
TypeHighlight ==
    /\ loaded
    /\ highlight' \in {<<>>, Word \o Word} \ {highlight}
    /\ UNCHANGED <<rest, file, threads, activeId, loading, pending,
                   nextId, loaded>>

\* page.tsx:570   a thread of the list is clicked
SelectThread ==
    /\ loaded
    /\ \E id \in ThreadIds(threads) \ {activeId} : activeId' = id
    /\ UNCHANGED <<rest, composer, threads, loading, pending, nextId, loaded>>

\* page.tsx:359-367
newThread ==
    /\ loaded
    /\ nextId < MaxIds
    /\ nextId' = nextId + 1
    /\ threads' = Slice(<<createNewThread(nextId + 1)>> \o threads,
                        0, MAX_THREADS)
    /\ activeId' = nextId + 1
    /\ file' = "none"
    /\ highlight' = <<>>
    /\ loading' = FALSE
    /\ UNCHANGED <<rest, pending, loaded>>

\* page.tsx:369-380
deleteThread ==
    /\ loaded
    /\ \E id \in ThreadIds(threads) :
          LET kept == SelectSeq(threads, LAMBDA t : t.id # id)
          IN  IF activeId # id
              THEN /\ threads' = kept
                   /\ UNCHANGED <<activeId, nextId>>
              ELSE IF kept # <<>>
              THEN /\ threads' = kept
                   /\ activeId' = kept[1].id
                   /\ nextId' = nextId
              ELSE /\ nextId < MaxIds
                   /\ threads' = <<createNewThread(nextId + 1)>>
                   /\ activeId' = nextId + 1
                   /\ nextId' = nextId + 1
    /\ UNCHANGED <<rest, composer, loading, pending, loaded>>

\* page.tsx:382-389
clearAll ==
    /\ loaded
    /\ nextId < MaxIds
    /\ nextId' = nextId + 1
    /\ threads' = <<createNewThread(nextId + 1)>>
    /\ activeId' = nextId + 1
    /\ file' = "none"
    /\ highlight' = <<>>
    /\ loading' = FALSE
    /\ UNCHANGED <<rest, pending, loaded>>

\* page.tsx:391-404   pushMessageToActive, in the render whose activeId is id
pushMessage(ts, id, msg) ==
    [k \in 1..Len(ts) |->
        IF ts[k].id # id THEN ts[k]
        ELSE [ts[k] EXCEPT !.messages = Append(@, msg)]]

\* page.tsx:406-419   replaceAssistantMessage, in the render whose activeId
\* is id
replaceMessage(ts, id, assistantId, out) ==
    [k \in 1..Len(ts) |->
        IF ts[k].id # id THEN ts[k]
        ELSE [ts[k] EXCEPT !.messages =
                [n \in 1..Len(@) |->
                    IF @[n].role = "assistant" /\ @[n].id = assistantId
                    THEN [@[n] EXCEPT !.output = out]
                    ELSE @[n]]]]

Placeholder == "Generating explanation..."

\* page.tsx:427-457, 878-879   the Explain button is clicked: handleExplain
\* runs up to its await of fetch
StartExplain ==
    /\ loaded
    /\ file # "none" /\ trim(highlight) # <<>> /\ ~loading
    /\ HasActiveThread
    /\ nextId + 2 <= MaxIds
    /\ loading' = TRUE
    /\ nextId' = nextId + 2
    /\ threads' =
          pushMessage(
            pushMessage(threads, activeId, [role |-> "user", id |-> nextId + 1]),
            activeId,
            [role |-> "assistant", id |-> nextId + 2, output |-> Placeholder])
    /\ pending' = pending \cup {[assistantId |-> nextId + 2, thread |-> activeId]}
    /\ UNCHANGED <<rest, composer, activeId, loaded>>

\* what fetch and the parse of its body come to
Outcomes == {"output", "empty", "httpError", "nonJson", "network"}

\* page.tsx:459-476   the text put in the place of the placeholder
ReplyText(outcome) ==
    CASE outcome = "output"    -> "explanation"
      [] outcome = "empty"     -> "No explanation returned."
      [] outcome = "httpError" -> "Error: PDF extraction failed"
      [] outcome = "nonJson"   -> "Request failed: Server returned non-JSON"
      [] outcome = "network"   -> "Request failed: Failed to fetch"

\* Mutant of ReplaceTarget: the thread that is active when the reply comes
ReplaceTarget_Current(r, current) == current

\* page.tsx:406-409   the activeId replaceAssistantMessage compares with is
\* that of the render in which handleExplain was called
ReplaceTarget(r, current) == r.thread

\* Mutant of LoadingAtEnd: loading is reset in the try block only
LoadingAtEnd_TryOnly(outcome, was) ==
    IF outcome \in {"nonJson", "network"} THEN was ELSE FALSE

\* page.tsx:477-479   finally { setLoading(false) }
LoadingAtEnd(outcome, was) == FALSE

\* the pending call whose placeholder has the id a
Awaiting(a) == \E r \in pending : r.assistantId = a

\* page.tsx:458-480   fetch has settled: the rest of the handleExplain call
\* whose placeholder has the id a
FinishExplain(a) ==
    /\ \E r \in pending, outcome \in Outcomes :
          /\ r.assistantId = a
          /\ pending' = pending \ {r}
          /\ threads' = replaceMessage(threads, ReplaceTarget(r, activeId),
                                       r.assistantId, ReplyText(outcome))
          /\ highlight' = IF outcome \in {"nonJson", "network"}
                          THEN highlight ELSE <<>>
          /\ loading' = LoadingAtEnd(outcome, loading)
    /\ UNCHANGED <<rest, file, activeId, nextId, loaded>>

NextPage ==
    \/ Load
    \/ ChooseFile
    \/ TypeHighlight
    \/ SelectThread
    \/ newThread
    \/ deleteThread
    \/ clearAll
    \/ StartExplain
    \/ \E a \in 1..MaxIds : FinishExplain(a)

SpecPage == InitPage /\ [][NextPage]_vars

\* every fetch settles
SpecPageFair == SpecPage /\ \A a \in 1..MaxIds : WF_vars(FinishExplain(a))

-----------------------------------------------------------------------------
(* MouseGlow (mouse-glow.tsx:5-34) *)

InitMouse ==
    /\ NoLocator
    /\ NoExtraction
    /\ NoPage
    /\ NoGlow

outside == <<locator, extraction, page>>

\* mouse-glow.tsx:9, 26   the effect runs: the listener is added
Mount ==
    /\ ~mounted
    /\ rafCount = 0
    /\ mounted' = TRUE
    /\ UNCHANGED <<outside, rafRef, latest, cssVars, frames, rafCount>>

\* Mutant of ShouldRequest: a frame is requested on every mousemove
ShouldRequest_Always(ref) == TRUE

\* mouse-glow.tsx:21   if (rafRef.current === null)
ShouldRequest(ref) == ref = NoFrame

\* mouse-glow.tsx:16-24   onMove
onMove ==
    /\ mounted
    /\ \E cx \in ClientCoords, cy \in ClientCoords :
          latest' = [x |-> Percent(cx), y |-> Percent(cy)]
    /\ IF ShouldRequest(rafRef)
       THEN /\ rafCount < MaxFrames
            /\ rafCount' = rafCount + 1
            /\ rafRef' = rafCount + 1
            /\ frames' = frames \cup {rafCount + 1}
       ELSE UNCHANGED <<rafRef, frames, rafCount>>
    /\ UNCHANGED <<outside, mounted, cssVars>>

\* mouse-glow.tsx:10-14   update, called by the browser for a requested frame
update ==
    /\ \E f \in frames : frames' = frames \ {f}
    /\ cssVars' = latest
    /\ rafRef' = NoFrame
    /\ UNCHANGED <<outside, mounted, latest, rafCount>>

\* mouse-glow.tsx:27-30   the cleanup of the effect
Unmount ==
    /\ mounted
    /\ mounted' = FALSE
    /\ frames' = IF rafRef # NoFrame THEN frames \ {rafRef} ELSE frames
    /\ UNCHANGED <<outside, rafRef, latest, cssVars, rafCount>>

NextMouse == Mount \/ onMove \/ update \/ Unmount

SpecMouse == InitMouse /\ [][NextMouse]_vars

-----------------------------------------------------------------------------
(* Properties of getContextChunk *)

Done == pc = "done"

\* the document has no code unit other than white space
Blank(d) == trim(d) = <<>>

\* the first n code units of d, all of d when it has fewer
Prefix(d, n) == SubSeq(d, 1, Min(Len(d), n))

\* C1: a highlight whose normalized form has at least 8 code units and occurs
\* in the normalized text of a non-blank document is reported found.
C1_FoundWhenPresent ==
    (/\ Done
     /\ ~Blank(pdfText)
     /\ Len(norm(highlight)) >= MinHighlightLen
     /\ Includes(norm(pdfText), norm(highlight)))
    => ret.found

C1_Witness ==
    /\ Done
    /\ radius = DefaultRadius
    /\ Len(norm(highlight)) >= MinHighlightLen
    /\ norm(highlight) # highlight
    /\ norm(pdfText) # pdfText
    /\ Includes(norm(pdfText), norm(highlight))
    /\ ret.found

\* C2: whenever the highlight is reported found and its normalized form occurs
\* in the normalized document, the normalized context contains the normalized
\* highlight.
C2_ContextCoversHighlight ==
    (/\ Done
     /\ ret.found
     /\ Includes(norm(pdfText), norm(highlight)))
    => Includes(norm(ret.context), norm(highlight))

ProbeOccurs(d, h) ==
    /\ Len(norm(h)) > ProbeLen
    /\ Includes(norm(d), SubSeq(norm(h), 1, ProbeLen))

C6_WindowInsideDocument ==
    Done
    => /\ 0 <= ret.start
       /\ ret.start <= ret.end
       /\ ret.end <= Len(pdfText)
       /\ ret.context = SubSeq(pdfText, ret.start + 1, ret.end)

\* C7: the context has at most 2 * radius code units when the highlight is
\* reported found and at most 12000 on the fallback paths.
C7_BoundedLength ==
    Done
    => IF ret.found
       THEN Len(ret.context) <= 2 * radius
       ELSE Len(ret.context) <= FallbackChars

C7_Witness ==
    /\ Done
    /\ ret.found
    /\ Len(pdfText) > 2 * radius
    /\ Len(ret.context) = 2 * radius

\* C8: the context is empty only when the document is the empty string.
C8_NonEmptyContext ==
    (Done /\ Len(pdfText) >= 1) => ret.context # <<>>

\* the normalized highlight is longer than the normalized document, and no
\* 140-unit probe of it occurs there
NormLonger(d, h) ==
    /\ Len(norm(h)) > Len(norm(d))
    /\ ~ProbeOccurs(d, h)

\* C10 (as amended): the call returns a result, and it is found = false with
\* start = 0 for an empty highlight, for an empty document, and for a
\* highlight whose normalized form is longer than the normalized document
\* (unless it has more than 140 code units and its first 140 occur there).
C10_Degenerate ==
    Done
    => /\ DOMAIN ret = {"context", "found", "start", "end"}
       /\ (highlight = <<>> \/ pdfText = <<>> \/ NormLonger(pdfText, highlight))
          => (~ret.found /\ ret.start = 0)

C10_Witness ==
    /\ Done
    /\ ~Blank(pdfText)
    /\ Len(norm(highlight)) >= MinHighlightLen
    /\ NormLonger(pdfText, highlight)
    /\ ~ret.found
    /\ ret.start = 0

\* C10 (as claimed): found = false with start = 0 for an empty highlight, an
\* empty document, and a highlight longer than the document.
C10_Original ==
    (Done /\ (highlight = <<>> \/ pdfText = <<>> \/ Len(highlight) > Len(pdfText)))
    => (~ret.found /\ ret.start = 0)

\* C12: a normalized highlight longer than 140 code units that does not occur
\* in the normalized document, but whose first 140 code units do, is reported
\* found; one of 8 to 140 code units that does not occur is not retried and
\* is not reported found.
C12_ProbeRetry ==
    Done
    => /\ (/\ ~Includes(norm(pdfText), norm(highlight))
           /\ ProbeOccurs(pdfText, highlight))
          => ret.found
       /\ (/\ Len(norm(highlight)) \in MinHighlightLen..ProbeLen
           /\ ~Includes(norm(pdfText), norm(highlight)))
          => ~ret.found

C12_Witness ==
    /\ Done
    /\ ~Includes(norm(pdfText), norm(highlight))
    /\ ProbeOccurs(pdfText, highlight)
    /\ Len(norm(pdfText)) > Len(norm(highlight))
    /\ ret.found

\* the trimmed highlight occurs as it is (up to case) in the original
\* document, and lower-casing does not move positions in the document
LiteralMatch(d, h) ==
    /\ Len(toLowerCase(d)) = Len(d)
    /\ trim(h) # <<>>
    /\ Includes(toLowerCase(d), toLowerCase(trim(h)))

\* C19: on the found path start = max(0, m - r) and end = min(len(D), m + L + r),
\* m the position of the matched occurrence in the original document and L
\* the length of the matched text (stated for highlights that occur
\* literally, where m is the first occurrence and L the highlight's length).
C19_SymmetricWindow ==
    (/\ Done
     /\ ret.found
     /\ LiteralMatch(pdfText, highlight)
     /\ Len(trim(highlight)) <= NeedleLen)
    => LET m == indexOf(toLowerCase(pdfText), toLowerCase(trim(highlight)))
           L == Len(trim(highlight))
       IN  /\ ret.start = Max(0, m - radius)
           /\ ret.end = Min(Len(pdfText), m + L + radius)

-----------------------------------------------------------------------------
(* Properties of findContext (route.ts) *)

\* C14: when the normalized highlight occurs, up to case, in the normalized
\* document, findContext reports it found.
C14_FindContextNormalizesBoth ==
    (/\ Done
     /\ Includes(toLowerCase(normalize(pdfText)), toLowerCase(normalize(highlight))))
    => ret.found

\* C20: the context of findContext has at most windowChars = 4000 code units
\* on the found path and at most 3500 on the not-found path.
C20_RouteBoundedLength ==
    Done
    => IF ret.found
       THEN Len(ret.context) <= WindowChars
       ELSE Len(ret.context) <= RouteFallbackChars

\* C4: a highlight whose normalized form has fewer than 8 code units is not
\* reported found by findContext, whatever the document.
C4_FindContextMinLength ==
    (Done /\ Len(normalize(highlight)) < MinHighlightLen) => ~ret.found

-----------------------------------------------------------------------------
(* Properties of findContext (mouse-glow.tsx) *)

\* a curly quote replaced by its straight equivalent
StraightQuote(c) ==
    CASE c \in {"ldq", "rdq"} -> "dq"
      [] c \in {"lsq", "rsq"} -> "sq"
      [] OTHER                -> c

Straighten(s) == [i \in 1..Len(s) |-> StraightQuote(s[i])]

\* C13: a highlight that differs from a passage of the document only by
\* curly versus straight quotation marks (double or single, left or right)
\* is reported found.
C13_QuotesUnified ==
    (/\ Done
     /\ highlight # <<>>
     /\ Includes(Straighten(pdfText), Straighten(highlight)))
    => ret.found

\* C21: on the found and on the not-found path the context returned by
\* findContext (mouse-glow.tsx) is a contiguous substring of the original,
\* non-normalized document.
C21_ContextFromOriginal ==
    Done => Includes(pdfText, ret.context)

-----------------------------------------------------------------------------
(* Properties of the normalizers *)

\* C9: each normalizer returns a string it leaves unchanged when applied to it
\* again: normalize(normalize(s)) = normalize(s).
C9_Idempotent ==
    /\ last = "normalize"  => normalize(ret) = ret
    /\ last = "normalizeQ" => normalizeQ(ret) = ret
    /\ last = "norm"       => norm(ret) = ret

C9_Witness ==
    /\ last = "normalizeQ"
    /\ ret # str
    /\ Len(ret) >= 3
    /\ \E i \in 1..Len(ret) : ret[i] = "sp"
    /\ \E i \in 1..Len(ret) : ret[i] = "dq"

-----------------------------------------------------------------------------
(* Properties of POST (route.ts) *)

Responded == resp.status # 0

IsError(r) == "error" \in DOMAIN r.body

HasFoundFlag(r) == DOMAIN r.body \cap {"found", "foundHighlight"} # {}

\* C15: every response of POST is a success payload with the output and a
\* found flag, or an error payload with a message; every success response,
\* the one given when OPENAI_API_KEY is unset included, has the found flag as
\* a field.
C15_ResponseShape ==
    Responded
    => \/ /\ resp.status = 200
          /\ "output" \in DOMAIN resp.body
          /\ HasFoundFlag(resp)
       \/ /\ resp.status # 200
          /\ IsError(resp)

KnownModes == {"quick", "breakdown", "example", "assumptions"}

KnownLevels == {"middle", "high", "college", "expert"}

\* C16: the four modes give pairwise distinct instruction templates, the four
\* reading levels pairwise distinct style instructions, and any other mode or
\* level still gives a non-empty instruction.
C16_DistinctTemplates ==
    pc \in {"key", "done"} /\ instr # NoInstr
    => /\ instr.instructions # ""
       /\ instr.level # ""
       /\ Mode(form) \in KnownModes
          => \A m \in KnownModes \ {Mode(form)} :
                buildInstructions(m) # instr.instructions
       /\ ReadingLevel(form) \in KnownLevels
          => \A l \in KnownLevels \ {ReadingLevel(form)} :
                mapReadingLevel(l) # instr.level

C16_Witness ==
    /\ resp.status = 200
    /\ form.mode = "example"
    /\ form.readingLevel = "expert"
    /\ instr.instructions = buildInstructions("example")
    /\ instr.level = mapReadingLevel("expert")

\* C17: a request whose PDF exceeds the ceiling of 20 MB is answered with an
\* error and the text extractor is never started for it.
C17_SizeCeiling ==
    form.size > MaxUploadBytes
    => /\ extractor = "idle"
       /\ Responded => IsError(resp)

\* a highlight that is empty or below the minimum usable length
DegenerateHighlight(h) == Len(normalize(h)) < MinHighlightLen

\* C18: every error response of POST comes from an external collaborator
\* (extraction or provider failure); a degenerate highlight alone gives no
\* error response but a found = false fallback.
C18_ErrorsFromCollaborators ==
    Responded
    => /\ IsError(resp) => extractor = "failed" \/ provider = "failed"
       /\ (/\ DegenerateHighlight(highlight)
           /\ form.multipart
           /\ form.pdf = "file"
           /\ extractor # "failed"
           /\ provider # "failed")
          => /\ ~IsError(resp)
             /\ ~ret.found

\* C22: POST never rejects: it completes with exactly one response, whatever
\* fails (form parsing, extraction, the model call), and an exception raised
\* after validation becomes a status-500 error payload with the exception's
\* message.
C22_AlwaysOneResponse ==
    /\ [](pc = "done" <=> Responded)
    /\ [][Responded => resp' = resp]_vars
    /\ [](extractor = "failed"
            => resp = [status |-> 500,
                       body   |-> [error   |-> "PDF extraction failed",
                                   details |-> ExtractError]])
    /\ [](provider = "failed"
            => resp = [status |-> 500,
                       body   |-> [error   |-> "PDF extraction failed",
                                   details |-> ProviderError]])
    /\ <>Responded

C22_Witness ==
    /\ Responded
    /\ provider = "failed"
    /\ resp.status = 500
    /\ resp.body.details = ProviderError

-----------------------------------------------------------------------------
(* Properties of the text extractor *)

Finished(p) == p.pc \in {"returned", "thrown"}

\* C23: whenever runPdftotext has written its temp input PDF and then
\* finishes, by returning text or by throwing, the deletion of both temp
\* files has been issued.
C23_TempFilesCleaned ==
    \A i \in Calls :
        (Finished(procs[i]) /\ procs[i].wrote) => procs[i].unlinked

\* the invocation holds temp paths and has not finished
Running(p) == p.pc \in {"spawned", "reading", "pending"}

\* C24: two invocations of extractPdfText that overlap in time use different
\* temp input paths and different temp output paths, and no invocation
\* returns the text of another request's PDF.
C24_DistinctTempPaths ==
    /\ \A i, j \in Calls :
          (i # j /\ Running(procs[i]) /\ Running(procs[j]))
          => /\ procs[i].inputPath # procs[j].inputPath
             /\ procs[i].outputPath # procs[j].outputPath
    /\ \A i \in Calls : procs[i].pc = "returned" => procs[i].text = i

\* C25: once the pdftotext child has closed (or emitted an error), the
\* promise of extractPdfText eventually settles, also when the child exits
\* with code 0 and the output file cannot be read.
C25_PromiseSettles ==
    \A i \in Calls : (procs[i].pc = "reading") ~> Finished(procs[i])

-----------------------------------------------------------------------------
(* Properties of the thread page (page.tsx) *)

\* C26: after the initial load, from any stored value, and after any sequence
\* of newThread, deleteThread, clearAll and thread selection, the thread list
\* is non-empty and activeId is the id of a thread in the list.
C26_ActiveThreadExists ==
    loaded => (threads # <<>> /\ HasActiveThread)

\* C27: while a request started by handleExplain has not completed, loading
\* is true, so at most one explain request is in flight at a time.
C27_LoadingWhilePending ==
    /\ pending # {} => loading
    /\ Cardinality(pending) <= 1

\* C28: every handleExplain call that sets loading to true eventually sets it
\* back to false, whatever the outcome of the request.
C28_LoadingReset ==
    /\ [][\A r \in pending : r \notin pending' => ~loading']_vars
    /\ \A a \in 1..MaxIds : Awaiting(a) ~> ~Awaiting(a)

C28_Witness ==
    /\ nextId >= 2
    /\ pending = {}
    /\ ~loading
    /\ \E k \in 1..Len(threads) :
          \E n \in 1..Len(threads[k].messages) :
             /\ threads[k].messages[n].role = "assistant"
             /\ threads[k].messages[n].output = ReplyText("network")

\* the thread with the id t has the assistant message a with the text out
HasReply(ts, t, a, out) ==
    \E k \in 1..Len(ts) :
       /\ ts[k].id = t
       /\ \E n \in 1..Len(ts[k].messages) :
             /\ ts[k].messages[n].role = "assistant"
             /\ ts[k].messages[n].id = a
             /\ ts[k].messages[n].output = out

\* C29: the placeholder appended by handleExplain is eventually replaced, in
\* the thread that was active at submission if that thread still exists;
\* the reply is never written into another thread, and the placeholder does
\* not stay for ever, also when the active thread is switched meanwhile.
C29_ReplyInOwnThread ==
    /\ [][\A r \in pending :
            r \notin pending'
            => /\ \A k \in 1..Len(threads) :
                    threads[k].id # r.thread => threads'[k] = threads[k]
               /\ r.thread \in ThreadIds(threads)
                    => /\ r.thread \in ThreadIds(threads')
                       /\ ~HasReply(threads', r.thread, r.assistantId,
                                    Placeholder)]_vars
    /\ [](\A r \in pending :
            r.thread \in ThreadIds(threads)
            => HasReply(threads, r.thread, r.assistantId, Placeholder))
    /\ \A a \in 1..MaxIds :
          (\E t \in ThreadIds(threads) : HasReply(threads, t, a, Placeholder))
          ~> ~(\E t \in ThreadIds(threads) :
                  HasReply(threads, t, a, Placeholder))

C29_Witness ==
    /\ pending = {}
    /\ \E t \in ThreadIds(threads) \ {activeId} :
          \E a \in 1..MaxIds : HasReply(threads, t, a, ReplyText("output"))

-----------------------------------------------------------------------------
(* Properties of MouseGlow *)

\* C30: for any sequence of mousemove events and animation frames, at most
\* one animation frame is pending at a time, rafRef is non-null exactly
\* while one is scheduled, and once the pending frame has run the custom
\* properties --mouse-x / --mouse-y are the position of the most recent
\* mousemove.
C30_OneFramePending ==
    mounted
    => /\ Cardinality(frames) <= 1
       /\ rafRef # NoFrame <=> frames # {}
       /\ frames \subseteq {rafRef}
       /\ (rafCount > 0 /\ frames = {}) => cssVars = latest

C30_Witness ==
    /\ mounted
    /\ rafCount = 2
    /\ frames = {}
    /\ cssVars = [x |-> 100, y |-> 25]
    /\ cssVars = latest

=============================================================================
